---- MODULE Spec2Model ----
(***************************************************************************)
(* Scan pipeline of the media indexer: device appearance, dirty marking,   *)
(* enumeration, change check, extraction, store write-back, completion     *)
(* counting and the dirty-removal sweep.                                   *)
(*                                                                         *)
(* The indexer process talks to the media database over one bus           *)
(* connection.  Requests are delivered to the database in the order they   *)
(* were sent (reqQ) and the database answers them one at a time; the       *)
(* answers are dispatched by the main loop in arrival order (respQ).       *)
(* A file's hash is the time of its last write: 1 for the files that are   *)
(* there from the start, 1 + n for a file written by the n-th edit.        *)
(* The device source reports an appearance once the work of the earlier    *)
(* appearances has drained.                                                *)
(*                                                                         *)
(* Specifications:                                                         *)
(*   Spec          the scan pipeline with unplugging, edits and crashes    *)
(*   SpecChange    the scan pipeline with unplugging and edits             *)
(*   SpecRestart   the scan pipeline with crashes                          *)
(*   SpecSendFail  the pipeline over a transport that may refuse a mergePut*)
(*   SpecOverlap   the pipeline with devices reported again while items of *)
(*                 their earlier scan are still in the pipeline            *)
(*   SpecToken     the token -> session data map of DbConnector            *)
(*   SpecRetry     the callers of sendMessage over a failing transport     *)
(*   SpecRpc       requestMediaScan, waitForScan and the main loop         *)
(*   SpecNotify    SpecRpc with the scan of another device completing      *)
(*   SpecRescan    the pipeline with requestMediaScan calls on the device  *)
(*   SpecDelete    the pipeline followed by requestDelete calls            *)
(*   SpecStoreFail the pipeline over a database that may refuse a write    *)
(*   SpecConf      the Configurator: loading a document, looking up        *)
(*   SpecNeedUpdate  needUpdate on every item and find result              *)
(*   SpecUri       the uri composition of the MediaItem constructor        *)
(*   SpecMeta      setMeta calls on one media item                         *)
(*   SpecTypes     the pipeline fed with items of every MIME type          *)
(*   SpecExtractor the extractor factory on every type and extension       *)
(*   SpecDevices   markDirty, writes and the sweep over the rows of two    *)
(*                 devices, one's uri a prefix of the other's              *)
(* Each specification changes its own variables and leaves the others as   *)
(* they start.                                                             *)
(***************************************************************************)
EXTENDS Integers, Sequences, FiniteSets, TLC

\* ---------------------------------------------------------------- bounds
MaxCycles == 2      \* appearances of the device that are explored
MaxFsChanges == 1   \* filesystem edits while the device is unplugged
MaxCrashes == 1     \* process crashes that are explored
MaxTokens == 2      \* requests issued in the token specification
MaxAnswers == 2     \* responses the bus produces for one token
MaxAttempts == 5    \* send attempts of one operation that are explored
MaxOps == 2         \* store operations run in the retry specification
MaxRpcCalls == 2    \* requestMediaScan calls that are explored
MaxEvents == 2      \* store responses queued for the main loop
MaxUriLen == 3      \* characters of a device uri and of a path

\* ------------------------------------------------------------- universe
\* Device uris and relative paths are character sequences.
Devices == { <<"m", "A">> }
Paths == { <<"/", "a">>, <<"b">> }

\* MIME type the plugin reports for a path.
MimeOf(p) == IF p = <<"/", "a">> THEN <<"audio", "/", "mpeg">>
                                 ELSE <<"image", "/", "jpeg">>

Types == {"Audio", "Video", "Image"}
TypeOrder == <<"Audio", "Video", "Image">>

IsPrefix(p, s) == /\ Len(p) <= Len(s)
                  /\ \A i \in 1..Len(p) : p[i] = s[i]

\* MediaItem::mediaTypeToString
mediaTypeToString(t) ==
    CASE t = "Audio" -> <<"audio">>
      [] t = "Video" -> <<"video">>
      [] t = "Image" -> <<"image">>
      [] OTHER -> <<>>

\* kindMap_ of MediaDb
kindMap(t) ==
    CASE t = "Audio" -> "audio:1"
      [] t = "Video" -> "video:1"
      [] t = "Image" -> "image:1"
      [] OTHER -> ""

Kinds == { kindMap(t) : t \in Types }

\* The type loop of the MediaItem constructor: first type string that is a
\* prefix of the mime, else EOL.
RECURSIVE typeFromIndex(_, _)
typeFromIndex(mime, i) ==
    IF i > Len(TypeOrder) THEN "EOL"
    ELSE IF IsPrefix(mediaTypeToString(TypeOrder[i]), mime) THEN TypeOrder[i]
    ELSE typeFromIndex(mime, i + 1)

typeFromMime(mime) == typeFromIndex(mime, 1)

\* The uri composition of the MediaItem constructor.
itemUri(devUri, path) ==
    IF devUri[Len(devUri)] # "/" /\ path[1] # "/"
    THEN devUri \o <<"/">> \o path
    ELSE devUri \o path

AllUris == { itemUri(d, p) : d \in Devices, p \in Paths }

\* Two devices of which the first's uri is a prefix of the second's
PrefixDevices == { <<"m", "A">>, <<"m", "A", "B">> }

\* The uris of the items of one device
UrisOf(d) == { itemUri(d, p) : p \in Paths }

PrefixUris == UNION { UrisOf(d) : d \in PrefixDevices }

NoItem == [dev |-> <<>>, path |-> <<>>, uri |-> <<>>, mime |-> <<>>,
           type |-> "EOL", hash |-> 0, cyc |-> 0, stage |-> "none"]

\* MediaItem::MediaItem, the value that is built
MediaItem(d, p, mime, h, c) ==
    [dev |-> d, path |-> p, uri |-> itemUri(d, p), mime |-> mime,
     type |-> typeFromMime(mime), hash |-> h, cyc |-> c, stage |-> "new"]

NoRow == [kind |-> "", hash |-> 0, dirty |-> FALSE, thumbnail |-> "",
          width |-> "", height |-> "", wcyc |-> 0, parsed |-> ""]

NoProps == [hash |-> 0, dirty |-> FALSE, thumbnail |-> "", width |-> "",
            height |-> "", parsed |-> ""]

VARIABLES
    files,          \* files[d][p]: hash of the file at p on d, 0 if absent
    store,          \* store[uri]: row of the media database, NoRow if none
    mediaItemMap,   \* mediaItemMap_ of MediaDb: uri -> hash, 0 if no entry
    available,      \* Device::available()
    itemCount,      \* Device media item count per type
    processedCount, \* Device processed item count per type
    visited,        \* paths the running (latest) enumeration has produced
    tasks,          \* media items between enumeration and their store write
    reqQ,           \* requests sent to the database, not yet applied
    respQ,          \* database answers not yet dispatched by the main loop
    cleanupPending, \* activated clean-up tasks that have not run yet
    cycle,          \* number of appearances of the device so far
    activations,    \* activateCleanUpTask calls in the current cycle
    markApplied,    \* kinds whose markDirty merge of this cycle is applied
    extractions,    \* extractor dispatches in the current cycle
    deletions,      \* rows removed by del in the current cycle
    synced,         \* the cycle started with the store mirroring the files
    fsChanges,      \* filesystem edits so far
    crashes,        \* crashes so far
    crashedInScan,  \* a crash hit the previous cycle before its sweep
    interrupted,    \* the device went away while its scan was running
    thumbFiles,     \* uris whose thumbnail file is on disk
    deviceWrites,   \* device records DeviceDb has written, per device
    sendFailed,     \* cycle of d in which a mergePut could not be sent, or 0
    messageMap,     \* messageMap_ of DbConnector: token -> session data
    lsToken,        \* the token the next request gets
    sessionOf,      \* the (method, object) handed to sendMessage, by token
    issued,         \* tokens of requests issued, token callback not yet run
    answers,        \* responses the bus has produced so far, by token
    replies,        \* tokens of responses waiting on the main loop
    firstHandled,   \* session data the first response of a token met
    consumed,       \* successful sessionDataFromToken calls, by token
    counted,        \* incrementProcessedItemCount calls of the handler
    replyWrites,    \* writes of the handler through sd.object
    busUp,          \* sendMessage succeeds
    storeOp,        \* the store operation being run, "none" if none
    attempts,       \* sendMessage calls of the operation so far
    opResult,       \* "running", or what the operation returned
    opsDone,        \* operations that have returned
    rpcPc,          \* where the main loop thread is in requestMediaScan
    scanState,      \* the scan dev->scan() started: none, running, done
    woken,          \* scanCv_ was notified while the handler waited
    waited,         \* seconds the handler has spent in wait_for
    pendingEvents,  \* store responses waiting for the main loop
    rpcReply,       \* the reply of the last requestMediaScan
    rpcCalls,       \* requestMediaScan calls so far
    rpcScanned,     \* the handler's local scanned: a device matched the path
    rpcCoalesced,   \* the device was being walked when scan() was called
    deleteRequested,\* per uri: "no", or what requestDelete found for it
    rejectedItems,  \* items whose write the database has refused
    confLoaded,     \* the Configurator has been constructed
    confDoc,        \* the configuration document it was constructed from
    extensions,     \* Configurator::extensions_, a set of <<ext, info>>
    asked,          \* the extension of the last lookup, "" before it
    typeInfo,       \* what getTypeInfo returned for it
    supported,      \* what isSupportedExtension returned for it
    nuItem,         \* the item of the last needUpdate call, NoItem before
    nuResp,         \* the row its find returned, NoRow for no results
    nuResult,       \* what the call returned
    miDevUri,       \* the device uri of the last MediaItem built, <<>> before
    miPath,         \* the path it was built with
    miUri,          \* its uri_
    meta_,          \* MediaItem::meta_ of one item: Meta -> value, NoMeta
    parsed_,        \* MediaItem::parsed_ of that item
    lastSet,        \* the last setMeta call on it, <<meta, value>>
    exType,         \* the type of the last extractor() call, "none" before
    exExt,          \* its extension
    exBuild,        \* the extractors the build has: HAS_TAGLIB, HAS_GSTREAMER
    exKind,         \* the extractor it returned
    devStore,       \* the media kinds holding the rows of PrefixDevices
    devOp           \* the last operation on it, <<operation, device>>

mainVars == <<files, store, mediaItemMap, available, itemCount, processedCount,
          visited, tasks, reqQ, respQ, cleanupPending, cycle, activations,
          markApplied, extractions, deletions, synced, fsChanges, crashes,
          crashedInScan, interrupted, thumbFiles, deviceWrites>>

\* The state of the token map of one DbConnector and of its requests
tokVars == <<messageMap, lsToken, sessionOf, issued, answers, replies,
             firstHandled, consumed, counted, replyWrites>>

\* The variables only the specifications of single failure and concurrency
\* scenarios change; Spec leaves them as they start.
\* The state of one caller of the store operations and of the transport
retryVars == <<busUp, storeOp, attempts, opResult, opsDone>>

\* The state of the requestMediaScan handler and of the main loop
rpcVars == <<rpcPc, scanState, woken, waited, pendingEvents, rpcReply,
             rpcCalls, rpcScanned, rpcCoalesced>>

\* The state of the mergePut failure and of the requestDelete scenarios
confVars == <<confLoaded, confDoc, extensions, asked, typeInfo, supported>>

\* The state of the scenarios of single functions
needVars == <<nuItem, nuResp, nuResult>>

uriVars == <<miDevUri, miPath, miUri>>

metaVars == <<meta_, parsed_, lastSet>>

exVars == <<exType, exExt, exBuild, exKind>>

devVars == <<devStore, devOp>>

pureVars == <<confVars, needVars, uriVars, metaVars, exVars, devVars>>

miscVars == <<sendFailed, deleteRequested, rejectedItems, pureVars>>

sideVars == <<miscVars, tokVars, retryVars, rpcVars>>

vars == <<mainVars, sideVars>>


\* ------------------------------------------------- database requests
\* A request on the bus.  obj is the MediaItemWrapper_t handed to
\* sendMessage (NoItem for nullptr); reply is FALSE once the sender died.
Request(op, kind, val, precise, props, obj, method, c) ==
    [op |-> op, kind |-> kind, val |-> val, precise |-> precise,
     props |-> props, obj |-> obj, method |-> method, cyc |-> c,
     reply |-> TRUE]

\* DbConnector::merge
merge(kind, props, whereVal, precise, obj, method, c) ==
    Request("merge", kind, whereVal, precise, props, obj, method, c)

\* DbConnector::mergePut
mergePut(uri, precise, props, obj, kind, c) ==
    Request("mergePut", kind, uri, precise, props, obj, "mergePut", c)

\* DbConnector::search as used by MediaDb::removeDirty
search(kind, whereVal, c) ==
    Request("search", kind, whereVal, FALSE, [NoProps EXCEPT !.dirty = TRUE],
            NoItem, "removeDirty", c)

\* DbConnector::del as used by the RemoveDirty response handler
del(kind, uri, c) ==
    Request("del", kind, uri, TRUE, NoProps, NoItem, "removeDirty", c)

\* MediaDb::markDirty with two of the three kinds only
markDirtyTwoKinds(d, type, c) ==
    IF type = "EOL"
    THEN << merge("audio:1", [NoProps EXCEPT !.dirty = TRUE], d, FALSE,
                  NoItem, "merge", c),
            merge("video:1", [NoProps EXCEPT !.dirty = TRUE], d, FALSE,
                  NoItem, "merge", c) >>
    ELSE << merge(kindMap(type), [NoProps EXCEPT !.dirty = TRUE], d, FALSE,
                  NoItem, "merge", c) >>

\* MediaDb::markDirty
markDirty(d, type, c) ==
    IF type = "EOL"
    THEN << merge("audio:1", [NoProps EXCEPT !.dirty = TRUE], d, FALSE,
                  NoItem, "merge", c),
            merge("video:1", [NoProps EXCEPT !.dirty = TRUE], d, FALSE,
                  NoItem, "merge", c),
            merge("image:1", [NoProps EXCEPT !.dirty = TRUE], d, FALSE,
                  NoItem, "merge", c) >>
    ELSE << merge(kindMap(type), [NoProps EXCEPT !.dirty = TRUE], d, FALSE,
                  NoItem, "merge", c) >>

unflagDirtyMergePut(m) ==
    IF m.type # "EOL"
    THEN << mergePut(m.uri, TRUE, [NoProps EXCEPT !.dirty = FALSE], m,
                     kindMap(m.type), m.cyc) >>
    ELSE << >>

\* MediaDb::unflagDirty
unflagDirty(m) ==
    IF m.type # "EOL"
    THEN << merge(kindMap(m.type), [NoProps EXCEPT !.dirty = FALSE], m.uri,
                  TRUE, m, "unflagDirty", m.cyc) >>
    ELSE << >>

updateMediaItemAnyType(m, meta) ==
    << mergePut(m.uri, TRUE,
                [hash |-> m.hash, dirty |-> FALSE,
                 thumbnail |-> meta.thumbnail, width |-> meta.width,
                 height |-> meta.height, parsed |-> ""],
                m, kindMap(m.type), m.cyc) >>

\* MediaDb::updateMediaItem; meta holds the extracted thumbnail, width and
\* height ("" when the extractor did not set them).  No parsed column is
\* put into the props ("").
updateMediaItem(m, meta) ==
    IF m.type = "EOL"
    THEN << >>
    ELSE << mergePut(m.uri, TRUE,
                     [hash |-> m.hash, dirty |-> FALSE,
                      thumbnail |-> meta.thumbnail, width |-> meta.width,
                      height |-> meta.height, parsed |-> ""],
                     m, kindMap(m.type), m.cyc) >>

\* MediaDb::removeDirty: one search per kind, in kindMap_ order
removeDirty(d, c) ==
    << search("audio:1", d, c), search("video:1", d, c),
       search("image:1", d, c) >>

cacheMissAbsentOnly(map, m) == map[m.uri] = 0

\* The cache test of MediaDb::checkForChange
cacheMiss(map, m) == map[m.uri] = 0 \/ (map[m.uri] # 0 /\ map[m.uri] # m.hash)

\* What the database returns for find(uri, precise = true, kind)
findRow(st, uri, kind) ==
    IF st[uri] # NoRow /\ st[uri].kind = kind THEN st[uri] ELSE NoRow

isEnoughInfoWidthOnly(type, row) ==
    CASE type \in {"Audio", "Video"} -> row.thumbnail # ""
      [] type = "Image" -> row.width # ""
      [] OTHER -> FALSE

\* MediaDb::isEnoughInfo
isEnoughInfo(type, row) ==
    CASE type \in {"Audio", "Video"} -> row.thumbnail # ""
      [] type = "Image" -> row.width # "" /\ row.height # ""
      [] OTHER -> FALSE

\* MediaDb::needUpdate, resp being the row the find returned
needUpdate(m, resp) ==
    IF resp = NoRow THEN TRUE
    ELSE IF m.hash # resp.hash THEN TRUE
    ELSE IF ~isEnoughInfo(m.type, resp) THEN TRUE
    ELSE FALSE

\* What an extractor leaves in the item
extracted(type, ok) ==
    [thumbnail |-> IF ok /\ type \in {"Audio", "Video"} THEN "t" ELSE "",
     width |-> IF ok /\ type = "Image" THEN "w" ELSE "",
     height |-> IF ok /\ type = "Image" THEN "h" ELSE ""]

\* ------------------------------------------------------------ device
\* The count the MediaItem constructor leaves out
countNothing(counts, type) == counts

\* End of MediaItem::MediaItem: a typed item is counted on its device
countItem(counts, type) ==
    IF type # "EOL" THEN [counts EXCEPT ![type] = @ + 1] ELSE counts

\* Device::incrementProcessedItemCount
incrementProcessedItemCount(counts, type) ==
    IF type # "EOL" THEN [counts EXCEPT ![type] = @ + 1] ELSE counts

\* Device::processingDone
processingDone(items, processed) ==
    \A t \in Types : items[t] > 0 => processed[t] = items[t]

\* ----------------------------------------------------------- database
matches(uri, val, precise) == IF precise THEN uri = val ELSE IsPrefix(val, uri)

\* merge: update the given props of every matching row of the kind
applyMerge(st, r) ==
    [u \in DOMAIN st |->
        IF st[u] # NoRow /\ st[u].kind = r.kind /\ matches(u, r.val, r.precise)
        THEN [st[u] EXCEPT !.dirty = r.props.dirty,
                           !.wcyc = IF r.props.dirty THEN @ ELSE r.cyc]
        ELSE st[u]]

\* mergePut: merge into the matching row, put a new row if there is none
applyMergePut(st, r) ==
    [st EXCEPT ![r.val] =
        [kind |-> r.kind, hash |-> r.props.hash, dirty |-> r.props.dirty,
         thumbnail |-> r.props.thumbnail, width |-> r.props.width,
         height |-> r.props.height, wcyc |-> r.cyc,
         parsed |-> r.props.parsed]]

\* search with where uri % val and filter dirty = true
searchResults(st, r) ==
    { u \in DOMAIN st : /\ st[u] # NoRow
                      /\ st[u].kind = r.kind
                      /\ matches(u, r.val, r.precise)
                      /\ st[u].dirty = r.props.dirty }

\* del with where uri = val
applyDel(st, r) ==
    [u \in DOMAIN st |->
        IF st[u] # NoRow /\ st[u].kind = r.kind /\ matches(u, r.val, r.precise)
        THEN NoRow ELSE st[u]]

Ack(m) == [type |-> "ack", obj |-> m, results |-> {}, kind |-> "", cyc |-> 0,
           thumbs |-> {}]
Results(r, us) ==
    [type |-> "results", obj |-> NoItem, results |-> us, kind |-> r.kind,
     cyc |-> r.cyc, thumbs |-> {}]

\* The results of a search whose selected thumbnail column is not empty
withThumbnail(st, us) == { u \in us : st[u].thumbnail # "" }

\* The uris of a result set in index order
RECURSIVE SeqOfUris(_)
SeqOfUris(us) ==
    IF us = {} THEN << >>
    ELSE LET u == CHOOSE x \in us : TRUE
         IN <<u>> \o SeqOfUris(us \ {u})

\* The RemoveDirty case of MediaDb::handleLunaResponseMetaData
removeDirtyResponse(r) ==
    LET us == SeqOfUris(r.results)
    IN [i \in 1..Len(us) |-> del(r.kind, us[i], r.cyc)]

\* The RemoveDirty case without the removal of the thumbnail files
keepThumbnails(tf, r) == tf

\* The RemoveDirty case: std::remove of every non-empty thumbnail
unlinkThumbnails(tf, r) == tf \ r.thumbs

DeviceOf(uri) == CHOOSE d \in Devices : IsPrefix(d, uri)

\* ---------------------------------------------------------- DeviceDb
\* DeviceDb::updateDevice: one mergePut of the device record
updateDevice(writes) == writes + 1

\* DeviceDb::deviceStateChanged writing whatever the state is
deviceStateChangedAlways(avail, writes) == updateDevice(writes)

\* DeviceDb::deviceStateChanged: writes only if the device appears
deviceStateChanged(avail, writes) ==
    IF avail THEN updateDevice(writes) ELSE writes


\* ------------------------------------------------ response tokens
Tokens == 1..MaxTokens

\* DbConnector::SessionData; NoSession stands for "not in the map", NotYet
\* for a token no response of which has been dispatched
SessionData(method, object) == [method |-> method, object |-> object]
NoSession == SessionData("", "none")
NotYet == SessionData("", "notyet")

\* The (method, object) pairs MediaDb hands to sendMessage: the item
\* wrapper of updateMediaItem and unflagDirty, the reply of needUpdate's
\* find, the item of checkForChange's find, nothing for markDirty and del
SessionPairs ==
    { SessionData("mergePut", "item"), SessionData("unflagDirty", "item"),
      SessionData("find", "reply"), SessionData("find", "item"),
      SessionData("merge", "null"), SessionData("del", "null") }

\* DbConnector::rememberSessionData: emplace keeps an entry already there
rememberSessionData(map, token, sd) ==
    IF map[token] = NoSession THEN [map EXCEPT ![token] = sd] ELSE map

\* DbConnector::sessionDataFromToken: the entry found (NoSession if none,
\* the call then returns false) and the map with the entry erased
sessionDataFromToken(map, token) ==
    [found |-> map[token] # NoSession, sd |-> map[token],
     map |-> [map EXCEPT ![token] = NoSession]]

\* MediaDb::handleLunaResponse after the token lookup: the return value,
\* whether the item is counted as processed, whether sd.object is written
handleLunaResponse(found, sd) ==
    CASE ~found ->
           [ret |-> FALSE, count |-> FALSE, write |-> FALSE]
      [] sd.method \in {"find", "putPermissions", "search", "del"} ->
           IF sd.object = "null"
           THEN [ret |-> FALSE, count |-> FALSE, write |-> FALSE]
           ELSE [ret |-> TRUE, count |-> FALSE, write |-> TRUE]
      [] sd.method \in {"unflagDirty", "mergePut"} ->
           [ret |-> TRUE, count |-> sd.object # "null", write |-> FALSE]
      [] OTHER ->
           [ret |-> TRUE, count |-> FALSE, write |-> FALSE]

\* ---------------------------------------------------- send retries
\* The callers of sendMessage in MediaDb and DbConnector
StoreOps == {"needUpdate", "checkForChange", "mergePut", "merge", "search", "del"}

\* The retries the specification gives every store operation
RetryLimit == 3

\* Whether the caller sends again after sendMessage returned ret: only
\* needUpdate loops (do ... while (!ret)); every other caller returns
sendAgain(op, ret) == op = "needUpdate" /\ ~ret

\* -------------------------------------------------- requestMediaScan
\* Seconds waitForScan waits for the notification
SCAN_TIMEOUT == 10

NoReply == [returnValue |-> FALSE, errorCode |-> 0, errorText |-> ""]

\* IndexerService::waitForScan: true unless wait_for timed out
waitForScan(notified) == notified

\* The reply requestMediaScan builds from (scanned && waitForScan())
scanReplyNoError(ok) ==
    [returnValue |-> TRUE, errorCode |-> 0, errorText |-> "No Error"]

scanReply(ok) ==
    IF ok THEN [returnValue |-> TRUE, errorCode |-> 0, errorText |-> "No Error"]
    ELSE [returnValue |-> FALSE, errorCode |-> -1, errorText |-> "Scan Failed"]

\* ------------------------------------------------------------- state
ZeroCounts == [t \in Types |-> 0]

PresentPaths(d) == { p \in Paths : files[d][p] # 0 }

\* Nothing of the pipeline is in flight
Idle == /\ tasks = {}
        /\ reqQ = << >>
        /\ respQ = << >>
        /\ \A d \in Devices : cleanupPending[d] = 0

\* The scan of d is running: files are left to enumerate or work of the
\* pipeline is outstanding
ScanRunning(d) ==
    available[d] /\ (~(PresentPaths(d) \subseteq visited[d]) \/ ~Idle)

\* The store holds exactly the files of d, each with its hash and with the
\* information isEnoughInfo asks for
Mirrors(d) ==
    \A p \in Paths :
        LET row == store[itemUri(d, p)]
        IN IF files[d][p] = 0 THEN row = NoRow
           ELSE /\ row # NoRow
                /\ row.hash = files[d][p]
                /\ isEnoughInfo(typeFromMime(MimeOf(p)), row)

\* ---------------------------------------------------- MediaItem meta
\* The meta data keys that are told apart, and the values set on them
Metas == {"Title", "Artist", "AlbumArtist"}

MetaValues == {"x", "y"}

\* std::nullopt of MediaItem::meta
NoMeta == "nullopt"

setMetaAlwaysCopy(map, key, value) ==
    LET copied == IF key = "Artist"
                  THEN [map EXCEPT !["AlbumArtist"] = value] ELSE map
    IN  [copied EXCEPT ![key] = value]

\* MediaItem::setMeta, the meta_ it leaves: the artist becomes the album
\* artist if none has been set yet, then the value is saved
setMeta(map, key, value) ==
    LET copied == IF key = "Artist" /\ map["AlbumArtist"] = NoMeta
                  THEN [map EXCEPT !["AlbumArtist"] = value] ELSE map
    IN  [copied EXCEPT ![key] = value]

\* ------------------------------------------------------ Configurator
\* File name extensions that configuration documents may list
Exts == {"mp3", "ogg", "flac", "jpg"}

\* One key of supportedMediaExtension: present or not, and the array
ExtLists == { l \in [has : BOOLEAN, exts : SUBSET Exts] :
                ~l.has => l.exts = {} }

NoList == [has |-> FALSE, exts |-> {}]

\* Configuration documents: what the parser returned is an object or not,
\* the object has the supportedMediaExtension key or not, and its arrays
ConfigDocs ==
    { d \in [isObject : BOOLEAN, hasKey : BOOLEAN,
             audio : ExtLists, video : ExtLists, image : ExtLists] :
        /\ ~d.isObject => ~d.hasKey
        /\ ~d.hasKey => d.audio = NoList /\ d.video = NoList
                        /\ d.image = NoList }

NoDocument ==
    [isObject |-> FALSE, hasKey |-> FALSE, audio |-> NoList,
     video |-> NoList, image |-> NoList]

\* std::map::insert for every element of an array: a key that is already
\* in the map keeps its value
insertAll(map, entries) ==
    map \cup { e \in entries : ~\E old \in map : old[1] = e[1] }

audioInfoAllGStreamer(ext) == <<"Audio", "GStreamerExtractor">>

\* Configurator::init, audio: mp3 and ogg use the TagLib extractor
audioInfo(ext) ==
    IF ext = "mp3" \/ ext = "ogg" THEN <<"Audio", "TagLibExtractor">>
    ELSE <<"Audio", "GStreamerExtractor">>

videoInfo(ext) == <<"Video", "GStreamerExtractor">>

imageInfo(ext) == <<"Image", "ImageExtractor">>

\* Configurator::init: the extension map built from a document
init(doc) ==
    IF ~doc.isObject \/ ~doc.hasKey THEN {}
    ELSE LET a == IF doc.audio.has
                  THEN insertAll({}, { <<e, audioInfo(e)>> :
                                         e \in doc.audio.exts })
                  ELSE {}
             v == IF doc.video.has
                  THEN insertAll(a, { <<e, videoInfo(e)>> :
                                        e \in doc.video.exts })
                  ELSE a
         IN  IF doc.image.has
             THEN insertAll(v, { <<e, imageInfo(e)>> :
                                   e \in doc.image.exts })
             ELSE v

\* Configurator::isSupportedExtension
isSupportedExtension(map, ext) == \E e \in map : e[1] = ext

getTypeInfoDefaultAudio(map, ext) ==
    IF \E e \in map : e[1] = ext
    THEN (CHOOSE e \in map : e[1] = ext)[2]
    ELSE <<"Audio", "GStreamerExtractor">>

\* Configurator::getTypeInfo
getTypeInfo(map, ext) ==
    IF \E e \in map : e[1] = ext
    THEN (CHOOSE e \in map : e[1] = ext)[2]
    ELSE <<"EOL", "EOL">>


Init ==
    /\ files \in [Devices -> [Paths -> {0, 1}]]
    /\ store = [u \in AllUris |-> NoRow]
    /\ mediaItemMap = [u \in AllUris |-> 0]
    /\ available = [d \in Devices |-> FALSE]
    /\ itemCount = [d \in Devices |-> ZeroCounts]
    /\ processedCount = [d \in Devices |-> ZeroCounts]
    /\ visited = [d \in Devices |-> {}]
    /\ tasks = {}
    /\ reqQ = << >>
    /\ respQ = << >>
    /\ cleanupPending = [d \in Devices |-> 0]
    /\ cycle = [d \in Devices |-> 0]
    /\ activations = [d \in Devices |-> 0]
    /\ markApplied = [d \in Devices |-> {}]
    /\ extractions = [d \in Devices |-> 0]
    /\ deletions = [d \in Devices |-> 0]
    /\ synced = [d \in Devices |-> FALSE]
    /\ fsChanges = 0
    /\ crashes = 0
    /\ crashedInScan = [d \in Devices |-> "no"]
    /\ interrupted = [d \in Devices |-> "no"]
    /\ thumbFiles = {}
    /\ deviceWrites = [d \in Devices |-> 0]
    /\ sendFailed = [d \in Devices |-> 0]
    /\ messageMap = [t \in Tokens |-> NoSession]
    /\ lsToken = 1
    /\ sessionOf = [t \in Tokens |-> NoSession]
    /\ issued = {}
    /\ answers = [t \in Tokens |-> 0]
    /\ replies = {}
    /\ firstHandled = [t \in Tokens |-> NotYet]
    /\ consumed = [t \in Tokens |-> 0]
    /\ counted = 0
    /\ replyWrites = 0
    /\ busUp = TRUE
    /\ storeOp = "none"
    /\ attempts = 0
    /\ opResult = "running"
    /\ opsDone = 0
    /\ rpcPc = "idle"
    /\ scanState = "none"
    /\ woken = FALSE
    /\ waited = 0
    /\ pendingEvents = 0
    /\ rpcReply = NoReply
    /\ rpcCalls = 0
    /\ rpcScanned = FALSE
    /\ rpcCoalesced = FALSE
    /\ deleteRequested = [u \in AllUris |-> "no"]
    /\ rejectedItems = {}
    /\ confLoaded = FALSE
    /\ confDoc = NoDocument
    /\ extensions = {}
    /\ asked = ""
    /\ typeInfo = <<"EOL", "EOL">>
    /\ supported = FALSE
    /\ nuItem = NoItem
    /\ nuResp = NoRow
    /\ nuResult = FALSE
    /\ miDevUri = << >>
    /\ miPath = << >>
    /\ miUri = << >>
    /\ meta_ = [k \in Metas |-> NoMeta]
    /\ parsed_ = FALSE
    /\ lastSet = <<"EOL", NoMeta>>
    /\ exType = "none"
    /\ exExt = ""
    /\ exBuild = [taglib |-> FALSE, gstreamer |-> FALSE]
    /\ exKind = "nullptr"
    /\ devStore = [u \in PrefixUris |-> NoRow]
    /\ devOp = <<"none", << >> >>

\* DbConnector::mergePut: when sendMessage fails the error is logged, false
\* is returned and nothing is on the bus
mergePutSent(sent, reqs) == IF sent THEN reqs ELSE << >>

\* ----------------------------------------------------------- actions
\* The device source reports d: the indexer marks the rows of d dirty in
\* all kinds and starts the scan.
onDeviceAppeared(d) ==
    /\ UNCHANGED sideVars
    /\ ~available[d]
    /\ cycle[d] < MaxCycles
    /\ available' = [available EXCEPT ![d] = TRUE]
    /\ cycle' = [cycle EXCEPT ![d] = @ + 1]
    /\ reqQ' = reqQ \o markDirty(d, "EOL", cycle[d] + 1)
    /\ visited' = [visited EXCEPT ![d] = {}]
    /\ activations' = [activations EXCEPT ![d] = 0]
    /\ markApplied' = [markApplied EXCEPT ![d] = {}]
    /\ extractions' = [extractions EXCEPT ![d] = 0]
    /\ deletions' = [deletions EXCEPT ![d] = 0]
    /\ synced' = [synced EXCEPT ![d] = Mirrors(d)]
    /\ crashedInScan' = [crashedInScan EXCEPT
                           ![d] = IF @ = "crashed" THEN "rescan" ELSE "no"]
    /\ interrupted' = [interrupted EXCEPT
                         ![d] = IF @ = "gone" THEN "back" ELSE "no"]
    /\ deviceWrites' = [deviceWrites EXCEPT
                          ![d] = deviceStateChanged(TRUE, @)]
    /\ UNCHANGED <<files, store, mediaItemMap, itemCount, processedCount,
                   tasks, respQ, cleanupPending, fsChanges, crashes,
                   thumbFiles>>

\* In Spec a device is reported only when the work of earlier scans has
\* drained.
DeviceAppeared(d) ==
    /\ Idle
    /\ onDeviceAppeared(d)

\* The device is reported while items of its earlier scan are still in the
\* pipeline.
DeviceAppearedBusy(d) ==
    /\ ~Idle
    /\ onDeviceAppeared(d)

\* The plugin's walk reaches the file at p: a MediaItem is constructed
\* (which counts it on the device) and handed to the pipeline.
Enumerate(d, p) ==
    /\ UNCHANGED sideVars
    /\ available[d]
    /\ p \notin visited[d]
    /\ files[d][p] # 0
    /\ LET m == MediaItem(d, p, MimeOf(p), files[d][p], cycle[d])
       IN /\ itemCount' = [itemCount EXCEPT ![d] = countItem(@, m.type)]
          /\ tasks' = tasks \cup {m}
    /\ visited' = [visited EXCEPT ![d] = @ \cup {p}]
    /\ UNCHANGED <<files, store, mediaItemMap, available, processedCount,
                   reqQ, respQ, cleanupPending, cycle, activations,
                   markApplied, extractions, deletions, synced, fsChanges,
                   crashes, crashedInScan>>
    /\ UNCHANGED <<interrupted, thumbFiles, deviceWrites>>

\* MediaDb::checkForChange.  On a miss the cache is updated and the item
\* goes on to the update check; on a hit the item is released and nothing
\* else is done with it.
CheckForChange(m) ==
    /\ UNCHANGED sideVars
    /\ m \in tasks
    /\ m.stage = "new"
    /\ IF cacheMiss(mediaItemMap, m)
       THEN /\ mediaItemMap' = [mediaItemMap EXCEPT ![m.uri] = m.hash]
            /\ tasks' = (tasks \ {m}) \cup {[m EXCEPT !.stage = "checked"]}
       ELSE /\ tasks' = tasks \ {m}
            /\ UNCHANGED mediaItemMap
    /\ UNCHANGED <<files, store, available, itemCount, processedCount,
                   visited, reqQ, respQ, cleanupPending, cycle, activations,
                   markApplied, extractions, deletions, synced, fsChanges,
                   crashes, crashedInScan>>
    /\ UNCHANGED <<interrupted, thumbFiles, deviceWrites>>

\* MediaDb::needUpdate with its synchronous find: the answer comes after
\* every request sent before it has been applied.  An unchanged item is
\* only unflagged, the others go to the extractor.
NeedUpdate(m) ==
    /\ UNCHANGED sideVars
    /\ m \in tasks
    /\ m.stage = "checked"
    /\ reqQ = << >>
    /\ IF needUpdate(m, findRow(store, m.uri, kindMap(m.type)))
       THEN /\ tasks' = (tasks \ {m}) \cup {[m EXCEPT !.stage = "extract"]}
            /\ UNCHANGED reqQ
       ELSE /\ tasks' = tasks \ {m}
            /\ reqQ' = reqQ \o unflagDirty(m)
    /\ UNCHANGED <<files, store, mediaItemMap, available, itemCount,
                   processedCount, visited, respQ, cleanupPending, cycle,
                   activations, markApplied, extractions, deletions, synced,
                   fsChanges, crashes, crashedInScan>>
    /\ UNCHANGED <<interrupted, thumbFiles, deviceWrites>>

\* The extractor runs on the item (it may fail to fill anything in; a
\* thumbnail it reports is a file it has written) and
\* MediaDb::updateMediaItem writes the item.
Extract(m, ok) ==
    /\ UNCHANGED sideVars
    /\ m \in tasks
    /\ m.stage = "extract"
    /\ tasks' = tasks \ {m}
    /\ reqQ' = reqQ \o mergePutSent(TRUE, updateMediaItem(
                    [m EXCEPT !.stage = IF ok THEN "parsed" ELSE "unparsed"],
                    extracted(m.type, ok)))
    /\ extractions' = [extractions EXCEPT
                         ![m.dev] = IF m.cyc = cycle[m.dev] THEN @ + 1 ELSE @]
    /\ UNCHANGED <<files, store, mediaItemMap, available, itemCount,
                   processedCount, visited, respQ, cleanupPending, cycle,
                   activations, markApplied, deletions, synced, fsChanges,
                   crashes, crashedInScan>>
    /\ thumbFiles' = IF extracted(m.type, ok).thumbnail # ""
                     THEN thumbFiles \cup {m.uri} ELSE thumbFiles
    /\ UNCHANGED <<interrupted, deviceWrites>>

\* The parser hands an extracted item to updateMediaItem and the transport
\* refuses the mergePut: updateMediaItem ignores mergePut's result, so the
\* item is gone without a request and without an answer.
ExtractSendFails(m, ok) ==
    /\ m \in tasks
    /\ m.stage = "extract"
    /\ tasks' = tasks \ {m}
    /\ reqQ' = reqQ \o mergePutSent(FALSE, updateMediaItem(
                    [m EXCEPT !.stage = IF ok THEN "parsed" ELSE "unparsed"],
                    extracted(m.type, ok)))
    /\ extractions' = [extractions EXCEPT
                         ![m.dev] = IF m.cyc = cycle[m.dev] THEN @ + 1 ELSE @]
    /\ thumbFiles' = IF extracted(m.type, ok).thumbnail # ""
                     THEN thumbFiles \cup {m.uri} ELSE thumbFiles
    /\ sendFailed' = [sendFailed EXCEPT ![m.dev] = m.cyc]
    /\ UNCHANGED <<files, store, mediaItemMap, available, itemCount,
                   processedCount, visited, respQ, cleanupPending, cycle,
                   activations, markApplied, deletions, synced, fsChanges,
                   crashes, crashedInScan, interrupted, deviceWrites,
                   tokVars, retryVars, rpcVars, deleteRequested, rejectedItems,
                   pureVars>>

\* The database applies the oldest request and answers it.  The answers
\* whose handler changes nothing (a merge or del without object, a search
\* without results) are left out.
StoreApply ==
    /\ UNCHANGED sideVars
    /\ reqQ # << >>
    /\ LET r == Head(reqQ)
       IN /\ reqQ' = Tail(reqQ)
          /\ store' = CASE r.op = "merge" -> applyMerge(store, r)
                        [] r.op = "mergePut" -> applyMergePut(store, r)
                        [] r.op = "del" -> applyDel(store, r)
                        [] OTHER -> store
          /\ respQ' = IF ~r.reply THEN respQ
                      ELSE IF r.op \in {"merge", "mergePut"} /\ r.obj # NoItem
                      THEN Append(respQ, Ack(r.obj))
                      ELSE IF r.op = "search" /\ searchResults(store, r) # {}
                      THEN Append(respQ,
                                  [Results(r, searchResults(store, r))
                                     EXCEPT !.thumbs = withThumbnail(
                                        store, searchResults(store, r))])
                      ELSE respQ
          /\ markApplied' =
                [d \in Devices |->
                    IF r.op = "merge" /\ r.method = "merge" /\ r.val = d
                       /\ r.cyc = cycle[d]
                    THEN markApplied[d] \cup {r.kind} ELSE markApplied[d]]
          /\ deletions' =
                [d \in Devices |->
                    IF r.op = "del" /\ IsPrefix(d, r.val)
                       /\ applyDel(store, r) # store
                    THEN deletions[d] + 1 ELSE deletions[d]]
    /\ UNCHANGED <<files, mediaItemMap, available, itemCount, processedCount,
                   visited, tasks, cleanupPending, cycle, activations,
                   extractions, synced, fsChanges, crashes, crashedInScan>>
    /\ UNCHANGED <<interrupted, thumbFiles, deviceWrites>>

\* MediaDb::handleLunaResponse for an unflagDirty or mergePut answer
HandleAck(r) ==
    LET d == r.obj.dev
        processed == incrementProcessedItemCount(processedCount[d], r.obj.type)
    IN /\ processedCount' = [processedCount EXCEPT ![d] = processed]
       /\ IF processingDone(itemCount[d], processed)
          THEN /\ activations' = [activations EXCEPT ![d] = @ + 1]
               /\ cleanupPending' = [cleanupPending EXCEPT ![d] = @ + 1]
          ELSE UNCHANGED <<activations, cleanupPending>>
       /\ UNCHANGED <<reqQ, thumbFiles>>

\* MediaDb::handleLunaResponseMetaData for a removeDirty search answer
HandleResults(r) ==
    /\ reqQ' = reqQ \o removeDirtyResponse(r)
    /\ thumbFiles' = unlinkThumbnails(thumbFiles, r)
    /\ UNCHANGED <<processedCount, activations, cleanupPending>>

\* The main loop dispatches the oldest answer.
HandleResponse ==
    /\ UNCHANGED sideVars
    /\ respQ # << >>
    /\ LET r == Head(respQ)
       IN IF r.type = "ack" THEN HandleAck(r) ELSE HandleResults(r)
    /\ respQ' = Tail(respQ)
    /\ UNCHANGED <<files, store, mediaItemMap, available, itemCount, visited,
                   tasks, cycle, markApplied, extractions, deletions, synced,
                   fsChanges, crashes, crashedInScan, interrupted,
                   deviceWrites>>

\* An activated clean-up task runs MediaDb::removeDirty.
CleanUpTask(d) ==
    /\ UNCHANGED sideVars
    /\ cleanupPending[d] > 0
    /\ cleanupPending' = [cleanupPending EXCEPT ![d] = @ - 1]
    /\ reqQ' = reqQ \o removeDirty(d, cycle[d])
    /\ UNCHANGED <<files, store, mediaItemMap, available, itemCount,
                   processedCount, visited, tasks, respQ, cycle, activations,
                   markApplied, extractions, deletions, synced, fsChanges,
                   crashes, crashedInScan>>
    /\ UNCHANGED <<interrupted, thumbFiles, deviceWrites>>

\* The device source reports d gone: enumeration stops, items already in
\* the pipeline run on, the rows and the hash cache stay.
DeviceDisappeared(d) ==
    /\ UNCHANGED sideVars
    /\ available[d]
    /\ available' = [available EXCEPT ![d] = FALSE]
    /\ interrupted' = [interrupted EXCEPT
                         ![d] = IF ScanRunning(d) THEN "gone" ELSE "no"]
    /\ deviceWrites' = [deviceWrites EXCEPT
                          ![d] = deviceStateChanged(FALSE, @)]
    /\ UNCHANGED <<files, store, mediaItemMap, itemCount, processedCount,
                   visited, tasks, reqQ, respQ, cleanupPending, cycle,
                   activations, markApplied, extractions, deletions, synced,
                   fsChanges, crashes, crashedInScan, thumbFiles>>

\* A file of an unplugged device is added, removed or rewritten.
FsChange(d, p, h) ==
    /\ UNCHANGED sideVars
    /\ ~available[d]
    /\ fsChanges < MaxFsChanges
    /\ h \in {0, fsChanges + 2}
    /\ h # files[d][p]
    /\ files' = [files EXCEPT ![d][p] = h]
    /\ fsChanges' = fsChanges + 1
    /\ UNCHANGED <<store, mediaItemMap, available, itemCount, processedCount,
                   visited, tasks, reqQ, respQ, cleanupPending, cycle,
                   activations, markApplied, extractions, deletions, synced,
                   crashes, crashedInScan, thumbFiles, deviceWrites>>
    /\ interrupted' = [interrupted EXCEPT ![d] = "no"]

\* The process dies and is started again: everything it held in memory is
\* gone, the requests it had sent are still applied but no longer answered.
Crash ==
    /\ UNCHANGED sideVars
    /\ crashes < MaxCrashes
    /\ \E d \in Devices : cycle[d] > 0
    /\ crashes' = crashes + 1
    /\ mediaItemMap' = [u \in AllUris |-> 0]
    /\ available' = [d \in Devices |-> FALSE]
    /\ itemCount' = [d \in Devices |-> ZeroCounts]
    /\ processedCount' = [d \in Devices |-> ZeroCounts]
    /\ tasks' = {}
    /\ respQ' = << >>
    /\ cleanupPending' = [d \in Devices |-> 0]
    /\ reqQ' = [i \in 1..Len(reqQ) |->
                  [reqQ[i] EXCEPT !.reply = FALSE, !.obj = NoItem]]
    /\ crashedInScan' =
          [d \in Devices |->
              IF available[d] /\ activations[d] = 0 THEN "crashed"
              ELSE crashedInScan[d]]
    /\ interrupted' = [d \in Devices |-> "no"]
    /\ UNCHANGED <<files, store, visited, cycle, activations, markApplied,
                   extractions, deletions, synced, fsChanges, thumbFiles,
                   deviceWrites>>

Next ==
    \/ \E d \in Devices : DeviceAppeared(d)
    \/ \E d \in Devices, p \in Paths : Enumerate(d, p)
    \/ \E m \in tasks : CheckForChange(m)
    \/ \E m \in tasks : NeedUpdate(m)
    \/ \E m \in tasks, ok \in BOOLEAN : Extract(m, ok)
    \/ StoreApply
    \/ HandleResponse
    \/ \E d \in Devices : CleanUpTask(d)
    \/ \E d \in Devices : DeviceDisappeared(d)
    \/ \E d \in Devices, p \in Paths, h \in 0..(MaxFsChanges + 1) : FsChange(d, p, h)
    \/ Crash

Spec == Init /\ [][Next]_vars

\* The indexer in a process that does not crash
NextChange ==
    \/ \E d \in Devices : DeviceAppeared(d)
    \/ \E d \in Devices, p \in Paths : Enumerate(d, p)
    \/ \E m \in tasks : CheckForChange(m)
    \/ \E m \in tasks : NeedUpdate(m)
    \/ \E m \in tasks, ok \in BOOLEAN : Extract(m, ok)
    \/ StoreApply
    \/ HandleResponse
    \/ \E d \in Devices : CleanUpTask(d)
    \/ \E d \in Devices : DeviceDisappeared(d)
    \/ \E d \in Devices, p \in Paths, h \in 0..(MaxFsChanges + 1) :
          FsChange(d, p, h)

SpecChange == Init /\ [][NextChange]_vars

\* The indexer in a process that may crash, with files that stay as they
\* are and devices that stay plugged
NextRestart ==
    \/ \E d \in Devices : DeviceAppeared(d)
    \/ \E d \in Devices, p \in Paths : Enumerate(d, p)
    \/ \E m \in tasks : CheckForChange(m)
    \/ \E m \in tasks : NeedUpdate(m)
    \/ \E m \in tasks, ok \in BOOLEAN : Extract(m, ok)
    \/ StoreApply
    \/ HandleResponse
    \/ \E d \in Devices : CleanUpTask(d)
    \/ Crash

SpecRestart == Init /\ [][NextRestart]_vars

\* The indexer with a transport that may refuse a mergePut
NextSendFail ==
    \/ \E d \in Devices : DeviceAppeared(d)
    \/ \E d \in Devices, p \in Paths : Enumerate(d, p)
    \/ \E m \in tasks : CheckForChange(m)
    \/ \E m \in tasks : NeedUpdate(m)
    \/ \E m \in tasks, ok \in BOOLEAN : Extract(m, ok)
    \/ \E m \in tasks, ok \in BOOLEAN : ExtractSendFails(m, ok)
    \/ StoreApply
    \/ HandleResponse
    \/ \E d \in Devices : CleanUpTask(d)
    \/ \E d \in Devices : DeviceDisappeared(d)

SpecSendFail == Init /\ [][NextSendFail]_vars

\* The indexer with devices that may come back while the items of their
\* earlier scan are still in the pipeline
NextOverlap ==
    \/ \E d \in Devices : DeviceAppeared(d)
    \/ \E d \in Devices : DeviceAppearedBusy(d)
    \/ \E d \in Devices, p \in Paths : Enumerate(d, p)
    \/ \E m \in tasks : CheckForChange(m)
    \/ \E m \in tasks : NeedUpdate(m)
    \/ \E m \in tasks, ok \in BOOLEAN : Extract(m, ok)
    \/ StoreApply
    \/ HandleResponse
    \/ \E d \in Devices : CleanUpTask(d)
    \/ \E d \in Devices : DeviceDisappeared(d)
    \/ \E d \in Devices, p \in Paths, h \in 0..(MaxFsChanges + 1) : FsChange(d, p, h)

SpecOverlap == Init /\ [][NextOverlap]_vars


\* ------------------------------------------- token specification
\* A thread issues a request: the bus call returns its token; the token
\* callback that records the session data runs after the call.
IssueRequest(sd) ==
    /\ lsToken <= MaxTokens
    /\ sessionOf' = [sessionOf EXCEPT ![lsToken] = sd]
    /\ issued' = issued \cup {lsToken}
    /\ lsToken' = lsToken + 1
    /\ UNCHANGED <<messageMap, answers, replies, firstHandled, consumed,
                   counted, replyWrites>>
    /\ UNCHANGED <<mainVars, miscVars, retryVars, rpcVars>>

\* The issuing thread runs the token callback.
RememberSession(t) ==
    /\ t \in issued
    /\ issued' = issued \ {t}
    /\ messageMap' = rememberSessionData(messageMap, t, sessionOf[t])
    /\ UNCHANGED <<lsToken, sessionOf, answers, replies, firstHandled,
                   consumed, counted, replyWrites>>
    /\ UNCHANGED <<mainVars, miscVars, retryVars, rpcVars>>

\* The bus has a response for an issued request (a call that is not
\* cancelled can be answered again, as when the service goes down).
StoreAnswers(t) ==
    /\ sessionOf[t] # NoSession
    /\ answers[t] < MaxAnswers
    /\ t \notin replies
    /\ answers' = [answers EXCEPT ![t] = @ + 1]
    /\ replies' = replies \cup {t}
    /\ UNCHANGED <<messageMap, lsToken, sessionOf, issued, firstHandled,
                   consumed, counted, replyWrites>>
    /\ UNCHANGED <<mainVars, miscVars, retryVars, rpcVars>>

\* The main loop dispatches a response to onLunaResponse.
DispatchResponse(t) ==
    /\ t \in replies
    /\ replies' = replies \ {t}
    /\ LET look == sessionDataFromToken(messageMap, t)
           eff == handleLunaResponse(look.found, look.sd)
       IN /\ messageMap' = look.map
          /\ consumed' = [consumed EXCEPT
                            ![t] = IF look.found THEN @ + 1 ELSE @]
          /\ firstHandled' = [firstHandled EXCEPT
                                ![t] = IF @ = NotYet THEN look.sd ELSE @]
          /\ counted' = IF eff.count THEN counted + 1 ELSE counted
          /\ replyWrites' = IF eff.write THEN replyWrites + 1
                            ELSE replyWrites
    /\ UNCHANGED <<lsToken, sessionOf, issued, answers>>
    /\ UNCHANGED <<mainVars, miscVars, retryVars, rpcVars>>

NextToken ==
    \/ \E sd \in SessionPairs : IssueRequest(sd)
    \/ \E t \in Tokens : RememberSession(t)
    \/ \E t \in Tokens : StoreAnswers(t)
    \/ \E t \in Tokens : DispatchResponse(t)

SpecToken == Init /\ [][NextToken]_vars


\* ------------------------------------------- retry specification
TransportFails ==
    /\ busUp
    /\ busUp' = FALSE
    /\ UNCHANGED <<storeOp, attempts, opResult, opsDone>>
    /\ UNCHANGED <<mainVars, miscVars, tokVars, rpcVars>>

TransportRecovers ==
    /\ ~busUp
    /\ busUp' = TRUE
    /\ UNCHANGED <<storeOp, attempts, opResult, opsDone>>
    /\ UNCHANGED <<mainVars, miscVars, tokVars, rpcVars>>

\* A store operation is called.
StartOperation(op) ==
    /\ storeOp = "none"
    /\ opsDone < MaxOps
    /\ storeOp' = op
    /\ attempts' = 0
    /\ opResult' = "running"
    /\ UNCHANGED <<busUp, opsDone>>
    /\ UNCHANGED <<mainVars, miscVars, tokVars, rpcVars>>

\* The operation calls sendMessage; on failure it returns false, except
\* needUpdate, which calls find again.
SendMessage ==
    /\ storeOp # "none"
    /\ opResult = "running"
    /\ attempts < MaxAttempts
    /\ attempts' = attempts + 1
    /\ opResult' = IF busUp THEN "ok"
                   ELSE IF sendAgain(storeOp, busUp) THEN "running"
                   ELSE "failed"
    /\ UNCHANGED <<busUp, storeOp, opsDone>>
    /\ UNCHANGED <<mainVars, miscVars, tokVars, rpcVars>>

\* The operation returns to its caller.
OperationReturns ==
    /\ storeOp # "none"
    /\ opResult # "running"
    /\ storeOp' = "none"
    /\ attempts' = 0
    /\ opResult' = "running"
    /\ opsDone' = opsDone + 1
    /\ UNCHANGED busUp
    /\ UNCHANGED <<mainVars, miscVars, tokVars, rpcVars>>

NextRetry ==
    \/ TransportFails
    \/ TransportRecovers
    \/ \E op \in StoreOps : StartOperation(op)
    \/ SendMessage
    \/ OperationReturns

SpecRetry == Init /\ [][NextRetry]_vars


\* -------------------------------------- requestMediaScan specification
\* The main loop dispatches a requestMediaScan call to its handler: a
\* device that matches the path is scanned and the handler goes on to
\* call waitForScan; without a match the && skips the wait.
RequestMediaScan(scanned) ==
    /\ rpcPc = "idle"
    /\ rpcCalls < MaxRpcCalls
    /\ rpcCalls' = rpcCalls + 1
    /\ rpcScanned' = scanned
    /\ rpcCoalesced' = FALSE
    /\ IF scanned
       THEN /\ scanState' = "running"
            /\ rpcPc' = "scanned"
            /\ rpcReply' = rpcReply
       ELSE /\ scanState' = scanState
            /\ rpcPc' = "reply"
            /\ rpcReply' = scanReply(FALSE)
    /\ woken' = FALSE
    /\ waited' = 0
    /\ UNCHANGED pendingEvents
    /\ UNCHANGED <<mainVars, miscVars, tokVars, retryVars>>

\* The handler enters waitForScan: it takes scanMutex_ and starts to wait
\* on scanCv_.  The wait has no predicate: a notification made before this
\* moment is not seen.
EnterWait ==
    /\ rpcPc = "scanned"
    /\ rpcPc' = "waiting"
    /\ woken' = FALSE
    /\ UNCHANGED <<scanState, waited, pendingEvents, rpcReply, rpcCalls,
                   rpcScanned, rpcCoalesced>>
    /\ UNCHANGED <<mainVars, miscVars, tokVars, retryVars>>

\* A second passes while the handler sits in scanCv_.wait_for.
WaitTick ==
    /\ rpcPc = "waiting"
    /\ ~woken
    /\ waited < SCAN_TIMEOUT
    /\ waited' = waited + 1
    /\ UNCHANGED <<rpcPc, scanState, woken, pendingEvents, rpcReply, rpcCalls,
                   rpcScanned, rpcCoalesced>>
    /\ UNCHANGED <<mainVars, miscVars, tokVars, retryVars>>

\* wait_for returns, notified or timed out, and the reply is built.
WaitReturns ==
    /\ rpcPc = "waiting"
    /\ woken \/ waited = SCAN_TIMEOUT
    /\ rpcPc' = "reply"
    /\ rpcReply' = scanReply(waitForScan(woken))
    /\ UNCHANGED <<scanState, woken, waited, pendingEvents, rpcCalls,
                   rpcScanned, rpcCoalesced>>
    /\ UNCHANGED <<mainVars, miscVars, tokVars, retryVars>>

\* LSMessageReply; the handler returns to the main loop.
ReplyRpc ==
    /\ rpcPc = "reply"
    /\ rpcPc' = "idle"
    /\ UNCHANGED <<scanState, woken, waited, pendingEvents, rpcReply, rpcCalls,
                   rpcScanned, rpcCoalesced>>
    /\ UNCHANGED <<mainVars, miscVars, tokVars, retryVars>>

\* The store answers a request of the running scan: the response is
\* queued for the main loop.
ResponseQueued ==
    /\ scanState = "running"
    /\ pendingEvents < MaxEvents
    /\ pendingEvents' = pendingEvents + 1
    /\ UNCHANGED <<rpcPc, scanState, woken, waited, rpcReply, rpcCalls,
                   rpcScanned, rpcCoalesced>>
    /\ UNCHANGED <<mainVars, miscVars, tokVars, retryVars>>

\* The main loop, when no handler is running on it, dispatches a queued
\* response.
LoopDispatch ==
    /\ rpcPc = "idle"
    /\ pendingEvents > 0
    /\ pendingEvents' = pendingEvents - 1
    /\ UNCHANGED <<rpcPc, scanState, woken, waited, rpcReply, rpcCalls,
                   rpcScanned, rpcCoalesced>>
    /\ UNCHANGED <<mainVars, miscVars, tokVars, retryVars>>

\* The scan is complete once its responses have been handled;
\* notifyScanDone wakes the handler if it is waiting (notify_one without a
\* waiter does nothing).
NotifyScanDone ==
    /\ scanState = "running"
    /\ pendingEvents = 0
    /\ scanState' = "done"
    /\ woken' = (rpcPc = "waiting")
    /\ UNCHANGED <<rpcPc, waited, pendingEvents, rpcReply, rpcCalls,
                   rpcScanned, rpcCoalesced>>
    /\ UNCHANGED <<mainVars, miscVars, tokVars, retryVars>>

NextRpc ==
    \/ \E scanned \in BOOLEAN : RequestMediaScan(scanned)
    \/ EnterWait
    \/ WaitTick
    \/ WaitReturns
    \/ ReplyRpc
    \/ ResponseQueued
    \/ LoopDispatch
    \/ NotifyScanDone

SpecRpc == Init /\ [][NextRpc]_vars


\* The scan of another device, started by its appearance, completes:
\* notifyScanDone takes no argument and notifies the one scanCv_, so it
\* wakes the handler if it is waiting.
NotifyOtherScanDone ==
    /\ woken' = (woken \/ rpcPc = "waiting")
    /\ UNCHANGED <<rpcPc, scanState, waited, pendingEvents, rpcReply,
                   rpcCalls, rpcScanned, rpcCoalesced>>
    /\ UNCHANGED <<mainVars, miscVars, tokVars, retryVars>>

NextNotify ==
    \/ \E scanned \in BOOLEAN : RequestMediaScan(scanned)
    \/ EnterWait
    \/ WaitTick
    \/ WaitReturns
    \/ ReplyRpc
    \/ ResponseQueued
    \/ LoopDispatch
    \/ NotifyScanDone
    \/ NotifyOtherScanDone

SpecNotify == Init /\ [][NextNotify]_vars

\* ------------------------------------ rescan by request specification
\* The plugin's walk of d is under way
Enumerating(d) == available[d] /\ ~(PresentPaths(d) \subseteq visited[d])

\* Device::scan: a walk that is under way goes on (the call coalesces),
\* otherwise a new walk of the mountpoint starts
scan(seen, enumerating) == IF enumerating THEN seen ELSE {}

\* requestMediaScan for a path on the mountpoint of d, called while the
\* walk of d is under way or when the work of d has drained: the device is
\* scanned and the handler goes on to waitForScan.
RequestScan(d) ==
    /\ rpcPc = "idle"
    /\ rpcCalls < MaxRpcCalls
    /\ available[d]
    /\ Enumerating(d) \/ Idle
    /\ visited' = [visited EXCEPT ![d] = scan(@, Enumerating(d))]
    /\ rpcCalls' = rpcCalls + 1
    /\ rpcScanned' = TRUE
    /\ rpcCoalesced' = Enumerating(d)
    /\ scanState' = "running"
    /\ rpcPc' = "waiting"
    /\ woken' = FALSE
    /\ waited' = 0
    /\ UNCHANGED <<rpcReply, pendingEvents>>
    /\ UNCHANGED <<files, store, mediaItemMap, available, itemCount,
                   processedCount, tasks, reqQ, respQ, cleanupPending, cycle,
                   activations, markApplied, extractions, deletions, synced,
                   fsChanges, crashes, crashedInScan, interrupted,
                   thumbFiles, deviceWrites>>
    /\ UNCHANGED <<miscVars, tokVars, retryVars>>

\* The main loop dispatches a store response when no handler runs on it.
LoopHandleResponse ==
    /\ rpcPc = "idle"
    /\ HandleResponse

\* The scan of d is complete (walked, drained, every item processed) and
\* notifyScanDone is called.
ScanDone(d) ==
    /\ scanState = "running"
    /\ Idle
    /\ available[d]
    /\ PresentPaths(d) \subseteq visited[d]
    /\ processingDone(itemCount[d], processedCount[d])
    /\ scanState' = "done"
    /\ woken' = (rpcPc = "waiting")
    /\ UNCHANGED <<rpcPc, waited, pendingEvents, rpcReply, rpcCalls,
                   rpcScanned, rpcCoalesced>>
    /\ UNCHANGED <<mainVars, miscVars, tokVars, retryVars>>

NextRescan ==
    \/ \E d \in Devices : DeviceAppeared(d)
    \/ \E d \in Devices, p \in Paths : Enumerate(d, p)
    \/ \E m \in tasks : CheckForChange(m)
    \/ \E m \in tasks : NeedUpdate(m)
    \/ \E m \in tasks, ok \in BOOLEAN : Extract(m, ok)
    \/ StoreApply
    \/ LoopHandleResponse
    \/ \E d \in Devices : CleanUpTask(d)
    \/ \E d \in Devices : RequestScan(d)
    \/ WaitTick
    \/ WaitReturns
    \/ ReplyRpc
    \/ \E d \in Devices : ScanDone(d)

SpecRescan == Init /\ [][NextRescan]_vars


\* ------------------------------------------- Configurator specification
\* Configurator::Configurator: the constructor runs init() on the document
Configurator(doc) ==
    /\ ~confLoaded
    /\ confLoaded' = TRUE
    /\ confDoc' = doc
    /\ extensions' = init(doc)
    /\ UNCHANGED <<asked, typeInfo, supported, needVars, uriVars, metaVars,
                   exVars, devVars>>
    /\ UNCHANGED <<mainVars, sendFailed, deleteRequested, rejectedItems,
                   tokVars, retryVars,
                   rpcVars>>

\* A caller looks an extension up in the constructed Configurator
LookupExtension(ext) ==
    /\ confLoaded
    /\ asked' = ext
    /\ typeInfo' = getTypeInfo(extensions, ext)
    /\ supported' = isSupportedExtension(extensions, ext)
    /\ UNCHANGED <<confLoaded, confDoc, extensions, needVars, uriVars, metaVars,
                   exVars, devVars>>
    /\ UNCHANGED <<mainVars, sendFailed, deleteRequested, rejectedItems,
                   tokVars, retryVars,
                   rpcVars>>

NextConf ==
    \/ \E doc \in ConfigDocs : Configurator(doc)
    \/ \E ext \in Exts : LookupExtension(ext)

SpecConf == Init /\ [][NextConf]_vars

\* --------------------------------------------- needUpdate specification
\* Items needUpdate may be called with, of every type and EOL
UpdateItems ==
    { [NoItem EXCEPT !.uri = <<"u">>, !.type = ty, !.hash = h,
                     !.stage = "checked"] :
        ty \in Types \cup {"EOL"}, h \in 1..2 }

\* Rows the find of needUpdate may return for the item; hash 0 is a row
\* without the hash field
FoundRows ==
    { [NoRow EXCEPT !.kind = k, !.hash = h, !.thumbnail = th,
                    !.width = w, !.height = ht] :
        k \in Kinds, h \in 0..2, th \in {"", "t"}, w \in {"", "w"},
        ht \in {"", "h"} }

\* MediaDb::needUpdate returns for item m after its find in the kind of
\* the type of m (the base kind for EOL) has returned resp
NeedUpdateReturns(m, resp) ==
    /\ resp # NoRow /\ m.type # "EOL" => resp.kind = kindMap(m.type)
    /\ nuItem' = m
    /\ nuResp' = resp
    /\ nuResult' = needUpdate(m, resp)
    /\ UNCHANGED <<mainVars, sendFailed, deleteRequested, rejectedItems,
                   confVars, uriVars, metaVars, exVars, devVars, tokVars, retryVars,
                   rpcVars>>

NextNeedUpdate ==
    \E m \in UpdateItems, resp \in FoundRows \cup {NoRow} :
        NeedUpdateReturns(m, resp)

SpecNeedUpdate == Init /\ [][NextNeedUpdate]_vars

\* ------------------------------------------ refused write specification
\* The database refuses the oldest request, the write of an item: the
\* store is left alone and the answer, with returnValue false, goes to the
\* same callback as every answer to that request.
StoreRejects ==
    /\ reqQ # << >>
    /\ Head(reqQ).op \in {"merge", "mergePut"}
    /\ Head(reqQ).obj # NoItem
    /\ Head(reqQ).reply
    /\ reqQ' = Tail(reqQ)
    /\ respQ' = Append(respQ, Ack(Head(reqQ).obj))
    /\ rejectedItems' = rejectedItems \cup {Head(reqQ).obj}
    /\ UNCHANGED <<files, store, mediaItemMap, available, itemCount,
                   processedCount, visited, tasks, cleanupPending, cycle,
                   activations, markApplied, extractions, deletions, synced,
                   fsChanges, crashes, crashedInScan, interrupted,
                   thumbFiles, deviceWrites>>
    /\ UNCHANGED <<sendFailed, deleteRequested, pureVars, tokVars, retryVars,
                   rpcVars>>

NextStoreFail ==
    \/ \E d \in Devices : DeviceAppeared(d)
    \/ \E d \in Devices, p \in Paths : Enumerate(d, p)
    \/ \E m \in tasks : CheckForChange(m)
    \/ \E m \in tasks : NeedUpdate(m)
    \/ \E m \in tasks, ok \in BOOLEAN : Extract(m, ok)
    \/ StoreApply
    \/ StoreRejects
    \/ HandleResponse
    \/ \E d \in Devices : CleanUpTask(d)

SpecStoreFail == Init /\ [][NextStoreFail]_vars

\* ------------------------------------------- MediaItem uri specification
\* Non-empty strings of at most MaxUriLen characters, each a letter or '/'
UriStrings ==
    UNION { [1..n -> {"m", "/"}] : n \in 1..MaxUriLen }

\* MediaItem::MediaItem is called for a device with uri devUri and a path
ConstructMediaItem(devUri, path) ==
    /\ miDevUri' = devUri
    /\ miPath' = path
    /\ miUri' = itemUri(devUri, path)
    /\ UNCHANGED <<mainVars, sendFailed, deleteRequested, rejectedItems,
                   confVars, needVars, metaVars, exVars, devVars, tokVars,
                   retryVars,
                   rpcVars>>

NextUri ==
    \E devUri \in UriStrings, path \in UriStrings :
        ConstructMediaItem(devUri, path)

SpecUri == Init /\ [][NextUri]_vars

\* ------------------------------------------------ setMeta specification
\* An extractor calls setMeta on the item
SetMeta(key, value) ==
    /\ meta_' = setMeta(meta_, key, value)
    /\ parsed_' = TRUE
    /\ lastSet' = <<key, value>>
    /\ UNCHANGED <<mainVars, sendFailed, deleteRequested, rejectedItems,
                   confVars, needVars, uriVars, exVars, devVars, tokVars,
                   retryVars,
                   rpcVars>>

NextMeta == \E key \in Metas, value \in MetaValues : SetMeta(key, value)

SpecMeta == Init /\ [][NextMeta]_vars

\* --------------------------------------------- media type specification
\* MIME types a plugin may report for a file
Mimes ==
    { <<"audio", "/", "mpeg">>, <<"video", "/", "mp4">>,
      <<"image", "/", "jpeg">>, <<"text", "/", "plain">> }

\* The plugin's walk reaches the file at p and reports it with any of the
\* MIME types: a MediaItem is constructed and handed to the pipeline.
EnumerateMime(d, p, mime) ==
    /\ UNCHANGED sideVars
    /\ available[d]
    /\ p \notin visited[d]
    /\ files[d][p] # 0
    /\ LET m == MediaItem(d, p, mime, files[d][p], cycle[d])
       IN /\ itemCount' = [itemCount EXCEPT ![d] = countItem(@, m.type)]
          /\ tasks' = tasks \cup {m}
    /\ visited' = [visited EXCEPT ![d] = @ \cup {p}]
    /\ UNCHANGED <<files, store, mediaItemMap, available, processedCount,
                   reqQ, respQ, cleanupPending, cycle, activations,
                   markApplied, extractions, deletions, synced, fsChanges,
                   crashes, crashedInScan>>
    /\ UNCHANGED <<interrupted, thumbFiles, deviceWrites>>

NextTypes ==
    \/ \E d \in Devices : DeviceAppeared(d)
    \/ \E d \in Devices, p \in Paths, mime \in Mimes : EnumerateMime(d, p, mime)
    \/ \E m \in tasks : CheckForChange(m)
    \/ \E m \in tasks : NeedUpdate(m)
    \/ \E m \in tasks, ok \in BOOLEAN : Extract(m, ok)
    \/ StoreApply
    \/ HandleResponse
    \/ \E d \in Devices : CleanUpTask(d)

SpecTypes == Init /\ [][NextTypes]_vars

\* ---------------------------------------------- extractor specification
\* The extension the factory compares with
TAGLIB_EXT_MP3 == "mp3"

\* IMetaDataExtractor::extractor in a build with the given extractors
extractor(build, type, ext) ==
    IF build.taglib /\ type = "Audio" /\ ext = TAGLIB_EXT_MP3
    THEN "TagLibExtractor"
    ELSE IF build.gstreamer THEN "GStreamerExtractor"
    ELSE "nullptr"

\* The parser asks the factory for the extractor of an item
CreateExtractor(build, type, ext) ==
    /\ exType' = type
    /\ exExt' = ext
    /\ exBuild' = build
    /\ exKind' = extractor(build, type, ext)
    /\ UNCHANGED <<mainVars, sendFailed, deleteRequested, rejectedItems,
                   confVars, needVars, uriVars, metaVars, devVars, tokVars,
                   retryVars, rpcVars>>

NextExtractor ==
    \E build \in [taglib : BOOLEAN, gstreamer : BOOLEAN],
       type \in Types \cup {"EOL"}, ext \in Exts :
        CreateExtractor(build, type, ext)

SpecExtractor == Init /\ [][NextExtractor]_vars

\* ------------------------------------------- two-device specification
\* The store applies the requests of a sequence in order
RECURSIVE applyRequests(_, _)
applyRequests(st, rs) ==
    IF rs = << >> THEN st
    ELSE LET r == Head(rs)
             next == CASE r.op = "merge" -> applyMerge(st, r)
                       [] r.op = "mergePut" -> applyMergePut(st, r)
                       [] r.op = "del" -> applyDel(st, r)
                       [] OTHER -> st
         IN applyRequests(next, Tail(rs))

\* The searches of a sweep in order, each followed by the deletes the
\* RemoveDirty handler sends for its results
RECURSIVE sweep(_, _)
sweep(st, searches) ==
    IF searches = << >> THEN st
    ELSE LET r == Head(searches)
             dels == removeDirtyResponse(Results(r, searchResults(st, r)))
         IN sweep(applyRequests(st, dels), Tail(searches))

\* An item of device d is written by MediaDb::updateMediaItem
DevUpdateMediaItem(d, p) ==
    /\ devStore' = applyRequests(devStore,
                      updateMediaItem(MediaItem(d, p, MimeOf(p), 1, 1),
                                      extracted(typeFromMime(MimeOf(p)), TRUE)))
    /\ devOp' = <<"updateMediaItem", d>>
    /\ UNCHANGED <<mainVars, sendFailed, deleteRequested, rejectedItems,
                   confVars, needVars, uriVars, metaVars, exVars, tokVars,
                   retryVars, rpcVars>>

\* Device d appears: MediaDb::markDirty(d)
DevMarkDirty(d) ==
    /\ devStore' = applyRequests(devStore, markDirty(d, "EOL", 1))
    /\ devOp' = <<"markDirty", d>>
    /\ UNCHANGED <<mainVars, sendFailed, deleteRequested, rejectedItems,
                   confVars, needVars, uriVars, metaVars, exVars, tokVars,
                   retryVars, rpcVars>>

\* An unchanged item of device d is unflagged by MediaDb::unflagDirty
DevUnflagDirty(d, p) ==
    /\ devStore' = applyRequests(devStore,
                      unflagDirty(MediaItem(d, p, MimeOf(p), 1, 1)))
    /\ devOp' = <<"unflagDirty", d>>
    /\ UNCHANGED <<mainVars, sendFailed, deleteRequested, rejectedItems,
                   confVars, needVars, uriVars, metaVars, exVars, tokVars,
                   retryVars, rpcVars>>

\* The clean-up of device d: MediaDb::removeDirty(d) and the deletes of
\* the RemoveDirty handler
DevRemoveDirty(d) ==
    /\ devStore' = sweep(devStore, removeDirty(d, 1))
    /\ devOp' = <<"removeDirty", d>>
    /\ UNCHANGED <<mainVars, sendFailed, deleteRequested, rejectedItems,
                   confVars, needVars, uriVars, metaVars, exVars, tokVars,
                   retryVars, rpcVars>>

NextDevices ==
    \/ \E d \in PrefixDevices, p \in Paths : DevUpdateMediaItem(d, p)
    \/ \E d \in PrefixDevices : DevMarkDirty(d)
    \/ \E d \in PrefixDevices, p \in Paths : DevUnflagDirty(d, p)
    \/ \E d \in PrefixDevices : DevRemoveDirty(d)

SpecDevices == Init /\ [][NextDevices]_vars

\* ------------------------------------------- requestDelete specification
\* The path a uri was composed from
pathOf(u) == CHOOSE p \in Paths : \E d \in Devices : itemUri(d, p) = u

\* MediaDb::guessType: the type of the content type guessed from the name
guessType(u) == typeFromMime(MimeOf(pathOf(u)))

\* MediaDb::requestDelete: del where uri = u in the kind of the guessed type
requestDelete(u) ==
    Request("del", kindMap(guessType(u)), u, TRUE, NoProps, NoItem,
            "requestDelete", 0)

\* A client calls requestDelete for u once the scan of its device has
\* drained.  The answer to the del only goes back to the client
\* (sendMediaMetaDataNotification), which changes nothing here.
RequestDelete(u) ==
    /\ deleteRequested[u] = "no"
    /\ Idle
    /\ available[DeviceOf(u)]
    /\ PresentPaths(DeviceOf(u)) \subseteq visited[DeviceOf(u)]
    /\ deleteRequested' = [deleteRequested EXCEPT ![u] =
                             IF store[u] = NoRow THEN "absent"
                             ELSE IF store[u].thumbnail # "" THEN "thumb"
                             ELSE "row"]
    /\ reqQ' = Append(reqQ, requestDelete(u))
    /\ UNCHANGED <<files, store, mediaItemMap, available, itemCount,
                   processedCount, visited, tasks, respQ, cleanupPending,
                   cycle, activations, markApplied, extractions, deletions,
                   synced, fsChanges, crashes, crashedInScan, interrupted,
                   thumbFiles, deviceWrites>>
    /\ UNCHANGED <<sendFailed, rejectedItems, pureVars, tokVars, retryVars,
                   rpcVars>>

NextDelete ==
    \/ \E d \in Devices : DeviceAppeared(d)
    \/ \E d \in Devices, p \in Paths : Enumerate(d, p)
    \/ \E m \in tasks : CheckForChange(m)
    \/ \E m \in tasks : NeedUpdate(m)
    \/ \E m \in tasks, ok \in BOOLEAN : Extract(m, ok)
    \/ StoreApply
    \/ HandleResponse
    \/ \E d \in Devices : CleanUpTask(d)
    \/ \E u \in AllUris : RequestDelete(u)

SpecDelete == Init /\ [][NextDelete]_vars


\* ------------------------------------------------------- properties
\* The enumeration of the current scan of d has produced every file of d
EnumFinished(d) == available[d] /\ PresentPaths(d) \subseteq visited[d]

\* The scan of d has been enumerated and all its work has drained
Quiescent(d) == EnumFinished(d) /\ Idle

\* ... and a clean-up sweep has been activated and applied in this cycle
ScanCompleted(d) == Quiescent(d) /\ activations[d] >= 1

StoredUris(d) == { u \in AllUris : store[u] # NoRow /\ IsPrefix(d, u) }
FileUris(d) == { itemUri(d, p) : p \in PresentPaths(d) }

\* A store write (mergePut or unflagDirty) of an item of d is outstanding
WriteOutstanding(d) ==
    \/ \E m \in tasks : m.dev = d
    \/ \E i \in 1..Len(reqQ) : reqQ[i].obj # NoItem /\ reqQ[i].obj.dev = d
    \/ \E i \in 1..Len(respQ) : respQ[i].type = "ack" /\ respQ[i].obj.dev = d

\* C1: after a completed scan cycle of d (enumeration finished, all writes
\* acked, clean-up sweep applied) the uris stored under d.uri are exactly
\* the uris of the files present on d.
C1_IndexMirrorsDevice ==
    \A d \in Devices : ScanCompleted(d) => StoredUris(d) = FileUris(d)

\* C2: once the latest scan of d has drained, a stored row of d has
\* dirty = false if and only if its file was enumerated in that scan.
C2_DirtyIffNotEnumerated ==
    \A d \in Devices : Quiescent(d) =>
        \A p \in Paths :
            LET row == store[itemUri(d, p)]
            IN row # NoRow => (row.dirty = FALSE <=> p \in visited[d])

\* C3: a clean-up task of d is activated only when the enumeration of d has
\* finished and no write of an enumerated item of d is outstanding.
C3_CleanupAfterLastAck ==
    \A d \in Devices :
        (cleanupPending[d] > 0 /\ available[d]) =>
            (EnumFinished(d) /\ ~WriteOutstanding(d))

\* C4: activateCleanUpTask is invoked exactly once in a scan cycle, under
\* every interleaving of acks and enumeration; stated in the part a finite
\* run decides: no cycle sees a second activation.
C4_CleanupActivatedOnce ==
    \A d \in Devices : activations[d] <= 1

\* C5: when a scan cycle of d has drained (the store answered every
\* request), the processed count equals the item count for every type
\* with an enumerated file.
C5_ProcessedReachesItemCount ==
    \A d \in Devices : Quiescent(d) =>
        \A t \in Types :
            itemCount[d][t] > 0 => processedCount[d][t] = itemCount[d][t]

\* C6: processed_counts[t] <= item_counts[t] for every device and type, in
\* every reachable state.
C6_ProcessedAtMostItemCount ==
    \A d \in Devices : \A t \in Types :
        processedCount[d][t] <= itemCount[d][t]

\* Both files of the device have been counted and acknowledged
C6_Witness ==
    \E d \in Devices :
        /\ processedCount[d]["Audio"] >= 1
        /\ processedCount[d]["Image"] >= 1
        /\ processedCount[d] = itemCount[d]

\* C7: in a scan that starts with the store mirroring the unchanged files
\* (the result of an earlier scan), no item is dispatched to an extractor.
C7_NoExtractionWhenUnchanged ==
    \A d \in Devices : synced[d] => extractions[d] = 0

\* C8: markDirty(d) followed by a complete scan of d with no filesystem
\* change ends with every record of d dirty = false and no record deleted.
C8_UnchangedScanKeepsRecords ==
    \A d \in Devices : (synced[d] /\ Quiescent(d)) =>
        /\ deletions[d] = 0
        /\ \A u \in AllUris :
              (IsPrefix(d, u) /\ store[u] # NoRow) => store[u].dirty = FALSE

C10_RescanAfterCrashConverges ==
    \A d \in Devices : (crashedInScan[d] = "rescan" /\ ScanCompleted(d)) =>
        /\ StoredUris(d) = FileUris(d)
        /\ \A u \in StoredUris(d) : store[u].dirty = FALSE

\* C11: d went away while its scan was running and came back with its
\* files unchanged; when the scan of the re-appearance has completed, no
\* record of a present file is dirty and the record of every present file
\* that the earlier scan had handled is still there.
C11_ReappearanceClearsDirty ==
    \A d \in Devices : (interrupted[d] = "back" /\ ScanCompleted(d)) =>
        \A p \in PresentPaths(d) :
            LET u == itemUri(d, p)
            IN /\ store[u] # NoRow => store[u].dirty = FALSE
               /\ mediaItemMap[u] = files[d][p] => store[u] # NoRow

\* C12: after a disappearance of d the hash cache holds no entry for a uri
\* of d.
C12_CachePurgedOnDisappearance ==
    \A d \in Devices : (~available[d] /\ cycle[d] > 0) =>
        \A u \in AllUris : IsPrefix(d, u) => mediaItemMap[u] = 0

\* C13: a disappearance event leaves the persisted state as it is: no media
\* record is modified or deleted, no request is issued, no thumbnail file
\* is removed and the device record is not written again.
C13_DisappearanceLeavesStore ==
    [][\A d \in Devices :
          (available[d] /\ ~available'[d] /\ crashes' = crashes) =>
              /\ store' = store
              /\ reqQ' = reqQ
              /\ thumbFiles' = thumbFiles
              /\ deviceWrites' = deviceWrites]_vars

\* d has disappeared while records of it are stored, and its device record
\* was written at each appearance
C13_Witness ==
    \E d \in Devices :
        /\ ~available[d]
        /\ cycle[d] >= 1
        /\ crashes = 0
        /\ deviceWrites[d] = cycle[d]
        /\ \E u \in AllUris : IsPrefix(d, u) /\ store[u] # NoRow

C16_FailedExtractionStillWritten ==
    /\ [](\A i \in 1..Len(reqQ) :
            (/\ reqQ[i].op = "mergePut"
             /\ reqQ[i].obj # NoItem
             /\ reqQ[i].obj.stage = "unparsed") =>
                /\ reqQ[i].val = reqQ[i].obj.uri
                /\ reqQ[i].props.hash = reqQ[i].obj.hash
                /\ reqQ[i].props.dirty = FALSE
                /\ reqQ[i].props.parsed = "false")
    /\ [][(/\ respQ # << >>
           /\ Head(respQ).type = "ack"
           /\ Head(respQ).obj.stage = "unparsed"
           /\ respQ' = Tail(respQ)
           /\ crashes' = crashes) =>
              processedCount'[Head(respQ).obj.dev][Head(respQ).obj.type] =
                 processedCount[Head(respQ).obj.dev][Head(respQ).obj.type] + 1]_vars

\* C17: when the mergePut of an item cannot be sent, the item is dropped
\* with its record left as it was (no request for it is on the bus), and
\* the scan cycle still terminates: once the scan of that cycle has been
\* enumerated and all its work has drained, processingDone() holds.
C17_WriteFailureStillTerminates ==
    \A d \in Devices :
        (sendFailed[d] = cycle[d] /\ cycle[d] > 0 /\ Quiescent(d)) =>
            processingDone(itemCount[d], processedCount[d])

\* The visits of uri u that are between their check and the application of
\* their store write: items past checkForChange, and writes on the bus
InSequence(u) ==
    { m \in tasks : m.uri = u /\ m.stage \in {"checked", "extract"} }
    \cup { reqQ[i].obj : i \in { j \in 1..Len(reqQ) :
                                  reqQ[j].obj # NoItem /\ reqQ[j].obj.uri = u } }

\* C19: operations on the same uri are serialized: at no time are two
\* visits of one uri both between their check and their store write.
C19_SameUriSerialized ==
    \A u \in AllUris : Cardinality(InSequence(u)) <= 1

\* C15: every response is handled with exactly the session data recorded
\* for the request that carried its token (the first response of a token
\* meets the (method, object) the request was sent with); a token is
\* consumed at most once; and a response whose token is not in the map
\* changes neither a counter nor a reply object.
C15_ResponseMeetsItsSession ==
    /\ [](\A t \in Tokens :
            /\ firstHandled[t] # NotYet => firstHandled[t] = sessionOf[t]
            /\ consumed[t] <= 1)
    /\ [][\A t \in Tokens :
            (t \in replies /\ t \notin replies' /\ messageMap[t] = NoSession)
                => /\ counted' = counted
                   /\ replyWrites' = replyWrites
                   /\ messageMap' = messageMap]_vars

\* C18: a store operation is retried at most RetryLimit times on transport
\* failure and then fails: no operation, needUpdate in particular, sends
\* more than once plus RetryLimit times.
C18_RetriesBounded ==
    storeOp # "none" => attempts <= 1 + RetryLimit

\* C20: the main event loop thread never blocks: it never sits in a wait
\* on the condition variable while a store response is queued for it.
C20_MainLoopNeverBlocks ==
    ~(rpcPc = "waiting" /\ waited > 0 /\ pendingEvents > 0)

\* C21: requestMediaScan with a path that matches no device starts no scan
\* and replies {returnValue: false, errorCode: -1, errorText: "Scan
\* Failed"} without waiting.
C21_NoMatchFailsAtOnce ==
    /\ []((rpcPc = "reply" /\ ~rpcScanned) =>
            /\ rpcReply = [returnValue |-> FALSE, errorCode |-> -1,
                           errorText |-> "Scan Failed"]
            /\ waited = 0)
    /\ [][(rpcPc = "idle" /\ rpcPc' # "idle" /\ ~rpcScanned') =>
            /\ rpcPc' = "reply"
            /\ scanState' = scanState]_vars

C21_Witness ==
    /\ rpcPc = "reply"
    /\ ~rpcScanned
    /\ rpcCalls = 2
    /\ scanState = "running"

\* C22: when the wait of requestMediaScan times out the caller gets
\* returnValue = false with "Scan Failed", and the scan it started is not
\* aborted but runs to processingDone(): once the walk has finished and
\* all its work has drained, every enumerated item is processed.
C22_TimedOutScanStillCompletes ==
    \A d \in Devices :
        (/\ rpcPc = "idle"
         /\ rpcScanned
         /\ rpcReply = [returnValue |-> FALSE, errorCode |-> -1,
                        errorText |-> "Scan Failed"]
         /\ Quiescent(d)) =>
            processingDone(itemCount[d], processedCount[d])

\* C23: requestMediaScan on a device that is already scanning is a no-op
\* that reports success: the call starts no second enumeration, leaves the
\* item and processed counts alone, and the caller gets returnValue = true.
C23_ScanWhileScanningSucceeds ==
    /\ []((rpcPc = "reply" /\ rpcCoalesced) => rpcReply.returnValue = TRUE)
    /\ [][(rpcPc = "idle" /\ rpcPc' = "waiting" /\ rpcCoalesced') =>
            /\ visited' = visited
            /\ tasks' = tasks
            /\ itemCount' = itemCount
            /\ processedCount' = processedCount]_vars

\* C24: requestDelete(uri) removes the row with exactly that uri and, if
\* the row's thumbnail path is not empty, unlinks the thumbnail file: once
\* the request and everything it caused has drained, the row is gone, the
\* thumbnail file of a row that had one is gone, and every other row is
\* still there.
C24_RequestDeleteRemovesRowAndThumbnail ==
    \A u \in AllUris :
        (deleteRequested[u] # "no" /\ Idle) =>
            /\ store[u] = NoRow
            /\ deleteRequested[u] = "thumb" => u \notin thumbFiles

\* C25 as stated: a looked-up extension that the configuration lists gets
\* (Audio, TagLibExtractor) if it is an audio extension equal to mp3 or ogg,
\* (Audio, GStreamerExtractor) if it is any other audio extension,
\* (Video, GStreamerExtractor) if it is a video extension and
\* (Image, ImageExtractor) if it is an image extension; an extension the
\* configuration does not list gets (EOL, EOL) and is not supported.
C25_TypeInfoByList ==
    (confLoaded /\ asked # "") =>
        /\ (asked \in confDoc.audio.exts /\ asked \in {"mp3", "ogg"})
              => typeInfo = <<"Audio", "TagLibExtractor">>
        /\ (asked \in confDoc.audio.exts /\ asked \notin {"mp3", "ogg"})
              => typeInfo = <<"Audio", "GStreamerExtractor">>
        /\ asked \in confDoc.video.exts
              => typeInfo = <<"Video", "GStreamerExtractor">>
        /\ asked \in confDoc.image.exts
              => typeInfo = <<"Image", "ImageExtractor">>
        /\ asked \notin (confDoc.audio.exts \cup confDoc.video.exts
                           \cup confDoc.image.exts)
              => typeInfo = <<"EOL", "EOL">> /\ ~supported

\* C25 amended: the first of the audio, video and image lists that holds
\* the extension decides.  An audio extension gets (Audio, TagLibExtractor)
\* if it is mp3 or ogg and (Audio, GStreamerExtractor) otherwise; a video
\* extension that is not an audio extension gets (Video,
\* GStreamerExtractor); an image extension that is neither gets (Image,
\* ImageExtractor); every listed extension is supported; an extension in
\* no list gets (EOL, EOL) and is not supported.
C25_TypeInfoByFirstList ==
    (confLoaded /\ asked # "") =>
        LET inAudio == asked \in confDoc.audio.exts
            inVideo == asked \in confDoc.video.exts
            inImage == asked \in confDoc.image.exts
        IN  /\ (inAudio /\ asked \in {"mp3", "ogg"})
                  => typeInfo = <<"Audio", "TagLibExtractor">>
            /\ (inAudio /\ asked \notin {"mp3", "ogg"})
                  => typeInfo = <<"Audio", "GStreamerExtractor">>
            /\ (inVideo /\ ~inAudio)
                  => typeInfo = <<"Video", "GStreamerExtractor">>
            /\ (inImage /\ ~inAudio /\ ~inVideo)
                  => typeInfo = <<"Image", "ImageExtractor">>
            /\ (inAudio \/ inVideo \/ inImage) => supported
            /\ ~(inAudio \/ inVideo \/ inImage)
                  => typeInfo = <<"EOL", "EOL">> /\ ~supported

C25_Witness ==
    /\ confLoaded
    /\ confDoc.audio.exts = {"mp3", "flac"}
    /\ confDoc.video.exts = {"ogg", "flac"}
    /\ confDoc.image.exts = {"jpg"}
    /\ asked = "flac"
    /\ typeInfo = <<"Audio", "GStreamerExtractor">>

\* C26: when the configuration document is not an object or has no
\* supportedMediaExtension key, construction completes and the extension
\* map is empty: every lookup answers (EOL, EOL) and "not supported".
C26_InvalidConfigGivesEmptyMap ==
    (confLoaded /\ (~confDoc.isObject \/ ~confDoc.hasKey)) =>
        /\ extensions = {}
        /\ asked # "" => typeInfo = <<"EOL", "EOL">> /\ ~supported

C26_Witness ==
    /\ confLoaded
    /\ confDoc.isObject
    /\ ~confDoc.hasKey
    /\ asked = "mp3"
    /\ typeInfo = <<"EOL", "EOL">>

\* C27: in every step in which checkForChange takes a new item m (the item
\* leaves the new items while the others stay),
\* it issues a find (the item goes on to the update check) exactly when
\* the cache has no entry for the uri of m or holds a different hash;
\* after the call the cache holds the hash of m for that uri; on a hit the
\* item is only released, and the cache, the store and the requests to the
\* store are what they were.
C27_CheckForChange ==
    [][\A m \in tasks :
         (/\ m.stage = "new" /\ m \notin tasks'
          /\ tasks \ {m} \subseteq tasks') =>
            LET miss == mediaItemMap[m.uri] = 0
                        \/ mediaItemMap[m.uri] # m.hash
                findIssued == [m EXCEPT !.stage = "checked"] \in tasks'
            IN  /\ findIssued <=> miss
                /\ mediaItemMap'[m.uri] = m.hash
                /\ ~miss => /\ mediaItemMap' = mediaItemMap
                            /\ store' = store
                            /\ reqQ' = reqQ]_vars

\* An item whose file changed since the cache was filled has been passed
\* on: the store still has the row with the old hash.
C27_Witness ==
    \E m \in tasks :
        /\ m.stage = "checked"
        /\ mediaItemMap[m.uri] = m.hash
        /\ store[m.uri] # NoRow
        /\ store[m.uri].hash # m.hash

\* C28: needUpdate(m) returns false exactly when the store has a row for
\* the uri that has a hash, whose hash equals the hash of m and which has enough
\* information for the type of m (audio and video: a non-empty thumbnail;
\* image: a non-empty width and a non-empty height); in every other case,
\* type EOL included, it returns true.
C28_NeedUpdate ==
    nuItem # NoItem =>
        (nuResult = FALSE <=>
            /\ nuResp # NoRow
            /\ nuResp.hash # 0
            /\ nuResp.hash = nuItem.hash
            /\ \/ nuItem.type \in {"Audio", "Video"} /\ nuResp.thumbnail # ""
               \/ /\ nuItem.type = "Image"
                  /\ nuResp.width # "" /\ nuResp.height # "")

\* An image whose row has the same hash and a width but no height
C28_Witness ==
    /\ nuItem.type = "Image"
    /\ nuResp # NoRow
    /\ nuResp.hash = nuItem.hash
    /\ nuResp.width # "" /\ nuResp.height = ""
    /\ nuResult = TRUE

\* C29: the processed counts of a device are incremented only by the
\* answer to a write (mergePut or unflagDirty) that succeeded: when the
\* main loop dispatches the answer to a write the database refused, the
\* processed counts stay as they are.
C29_FailedAckNotCounted ==
    [][(/\ respQ # << >>
        /\ respQ' = Tail(respQ)
        /\ Head(respQ).type = "ack"
        /\ Head(respQ).obj \in rejectedItems)
          => processedCount' = processedCount]_vars

\* C30: the uri of a MediaItem is the device uri and the path joined by
\* exactly one '/': the device uri without the '/' it may end with, one
\* '/', and the path without the '/' it may start with.
C30_ExactlyOneJoiner ==
    miUri # << >> =>
        LET dev == IF miDevUri[Len(miDevUri)] = "/"
                   THEN SubSeq(miDevUri, 1, Len(miDevUri) - 1) ELSE miDevUri
            rel == IF miPath[1] = "/"
                   THEN SubSeq(miPath, 2, Len(miPath)) ELSE miPath
        IN  miUri = dev \o <<"/">> \o rel

\* C31: after any sequence of setMeta calls, if Artist is set then
\* AlbumArtist is set, and parsed is true as soon as one call has been
\* made; a call that sets Artist copies the value to AlbumArtist when
\* AlbumArtist is absent and leaves an AlbumArtist that is present as it is.
C31_ArtistCopiedToAlbumArtist ==
    /\ [](/\ meta_["Artist"] # NoMeta => meta_["AlbumArtist"] # NoMeta
          /\ lastSet # <<"EOL", NoMeta>> => parsed_)
    /\ [][lastSet'[1] = "Artist" =>
            meta_'["AlbumArtist"] = IF meta_["AlbumArtist"] = NoMeta
                                   THEN lastSet'[2]
                                   ELSE meta_["AlbumArtist"]]_vars

\* The album artist was set first and a different artist afterwards
C31_Witness ==
    /\ lastSet = <<"Artist", "y">>
    /\ meta_["Artist"] = "y"
    /\ meta_["AlbumArtist"] = "x"
    /\ parsed_

\* C32: the type of a MediaItem is the first of audio, video, image that
\* is a prefix of its mime, else EOL; an item of type EOL does not
\* increment the item counts, is in no write and no unflag request to the
\* store and in no answer, and the processed counts change only for the
\* answer about an item of another type.
C32_EolItemRejected ==
    /\ [](/\ \A m \in tasks :
               m.type = IF m.mime[1] = "audio" THEN "Audio"
                        ELSE IF m.mime[1] = "video" THEN "Video"
                        ELSE IF m.mime[1] = "image" THEN "Image"
                        ELSE "EOL"
          /\ \A i \in 1..Len(reqQ) :
               reqQ[i].obj # NoItem => reqQ[i].obj.type # "EOL"
          /\ \A i \in 1..Len(respQ) :
               respQ[i].obj # NoItem => respQ[i].obj.type # "EOL")
    /\ [][/\ (\E m \in tasks' \ tasks : m.stage = "new" /\ m.type = "EOL")
               => itemCount' = itemCount
          /\ processedCount' # processedCount
               => respQ # << >> /\ Head(respQ).obj.type # "EOL"]_vars

\* Both files were reported as text/plain and have gone through the whole
\* pipeline: nothing was counted, nothing is stored.
C32_Witness ==
    \E d \in Devices :
        /\ visited[d] = Paths
        /\ extractions[d] = 2
        /\ tasks = {}
        /\ reqQ = << >> /\ respQ = << >>
        /\ \A u \in AllUris : store[u] = NoRow
        /\ \A ty \in Types : itemCount[d][ty] = 0 /\ processedCount[d][ty] = 0

\* C33: in a build with both extractors, the extractor the factory returns
\* for an audio or a video file is the one the Configurator assigns to its
\* extension: the TagLib extractor for audio files with extension mp3 or
\* ogg, the GStreamer extractor for every other audio and video file.
C33_FactoryAgreesWithConfigurator ==
    (exBuild.taglib /\ exBuild.gstreamer /\ exType \in {"Audio", "Video"}) =>
        /\ exType = "Audio" => exKind = audioInfo(exExt)[2]
        /\ exType = "Video" => exKind = videoInfo(exExt)[2]

\* C34: markDirty(d) and unflagDirty(m) change only the dirty field of
\* existing records: when the database applies a request of markDirty or
\* the request for an item that was found unchanged, every record keeps its kind, hash and extracted fields, and a uri without a
\* record still has none.
C34_MergeChangesOnlyDirty ==
    [][(/\ reqQ # << >>
        /\ reqQ' = Tail(reqQ)
        /\ \/ Head(reqQ).method = "merge"
           \/ Head(reqQ).obj.stage = "checked") =>
          \A u \in AllUris :
              /\ store[u] = NoRow => store'[u] = NoRow
              /\ store'[u] = [store[u] EXCEPT !.dirty = store'[u].dirty,
                                              !.wcyc = store'[u].wcyc]]_vars

\* The answer to an unflagDirty is waiting: the row was written by an
\* earlier scan, is not dirty and still has its thumbnail.
C34_Witness ==
    /\ respQ # << >>
    /\ Head(respQ).type = "ack"
    /\ Head(respQ).obj.stage = "checked"
    /\ store[Head(respQ).obj.uri].dirty = FALSE
    /\ store[Head(respQ).obj.uri].hash = Head(respQ).obj.hash
    /\ store[Head(respQ).obj.uri].thumbnail # ""

\* C35: under every interleaving of the issuing thread and the main loop,
\* when the first response to an issued request is dispatched, the session
\* data of its token is in the token map: no response is dropped because
\* rememberSessionData ran after it arrived.
C35_SessionRecordedBeforeResponse ==
    [][\A t \in Tokens :
         (/\ t \in replies /\ t \notin replies'
          /\ answers[t] = 1 /\ consumed[t] = 0)
            => /\ messageMap[t] = sessionOf[t]
               /\ consumed'[t] = 1]_vars

\* C36: if the scan started by requestMediaScan has completed
\* (notifyScanDone was called) by the time the wait of the handler ends,
\* whether the handler was already waiting or not, the reply is
\* {returnValue: true, errorCode: 0}: a notification is never lost.
C36_NotificationNeverLost ==
    [][(rpcPc = "waiting" /\ rpcPc' = "reply" /\ scanState = "done") =>
          /\ rpcReply'.returnValue = TRUE
          /\ rpcReply'.errorCode = 0]_vars

\* C37: requestMediaScan replies returnValue = true only if the scan of
\* the device it matched has completed; the completion of another scan
\* does not make the pending request report success.
C37_SuccessOnlyForOwnScan ==
    (rpcPc = "reply" /\ rpcReply.returnValue = TRUE) => scanState = "done"

\* C39: the clean-up sweep never deletes a record whose dirty flag is false
\* at the moment the delete is applied: a record that a scan cycle has
\* written or unflagged between the sweep's search for dirty rows and its
\* delete of the uri is kept.
C39_SweepDeletesOnlyDirty ==
    [][(reqQ # << >> /\ reqQ' = Tail(reqQ) /\ Head(reqQ).op = "del") =>
          \A u \in AllUris :
              (store[u] # NoRow /\ store'[u] = NoRow) => store[u].dirty]_vars

\* C38: markDirty(d) and the clean-up sweep of d change or delete only
\* records of device d: no record of another device, one whose uri has
\* d's uri as a string prefix included, is flagged dirty or deleted by
\* them.
C38_OnlyOwnRecords ==
    [][devOp'[1] \in {"markDirty", "removeDirty"} =>
          \A d \in PrefixDevices \ {devOp'[2]} :
              \A u \in UrisOf(d) : devStore'[u] = devStore[u]]_vars

====
